---- MODULE Spec2Model ----
(***************************************************************************)
(* Model of server/server.js: the Express application of the Billing       *)
(* Invoicer backend.  The application is a stack of layers built once at   *)
(* start-up (app.use / app.get, in registration order); every request      *)
(* walks that stack from the top, each handler either ending the response  *)
(* or calling next() / next(err).                                          *)
(*                                                                         *)
(* Requests share no state in server.js, so one request is in flight at a  *)
(* time.  Paths are sequences of segments ("/api/health" is                *)
(* <<"api", "health">>), which is what Express's non-strict routing        *)
(* compares (a trailing slash is not a segment).                           *)
(***************************************************************************)
EXTENDS Integers, Sequences, FiniteSets, TLC

VARIABLES env, stack, served, pc, req, idx, err, res, ran, out, accessLog

vars == <<env, stack, served, pc, req, idx, err, res, ran, out, accessLog>>

(***************************** bounds **************************************)

\* Number of requests the server receives in one behaviour.
MaxRequests == 2

\* Clock readings new Date() may return are 0..MaxClock.
MaxClock == 1

(************************* program constants *******************************)

\* express.json({ limit: '10mb' }): 10 * 1024 * 1024 bytes.
JsonLimit == 10485760

\* express.urlencoded({ limit: '10mb' }).
UrlencodedLimit == 10485760

\* corsOptions.optionsSuccessStatus
OptionsSuccessStatus == 200

(***************************** inputs **************************************)

\* Values of process.env.NODE_ENV; "unset" stands for undefined.
Envs == {"production", "development", "unset"}

Methods == {"GET", "HEAD", "POST", "OPTIONS"}

\* "none" stands for a request without an Origin header.
Origins == {"none", "https://shop.example"}

Paths ==
    { <<"health">>, <<"Health">>, <<"health", "x">>,
      <<"api", "health">>, <<"ping">>,
      <<"api", "auth", "login">>, <<"api", "products">>,
      <<"api", "invoices", "7">>, <<"api", "shop">>,
      <<"no-such-route">> }

\* Request bodies: the Content-Type, the length in bytes and whether the
\* payload is syntactically valid for its type.  len = 0 is "no body".
Bodies ==
    { [ctype |-> "none", len |-> 0, wellFormed |-> TRUE] }
    \cup [ctype : {"json"}, len : {JsonLimit}, wellFormed : BOOLEAN]
    \cup { [ctype |-> "json", len |-> JsonLimit + 1, wellFormed |-> TRUE] }
    \cup [ctype : {"urlencoded"}, len : {UrlencodedLimit, UrlencodedLimit + 1},
          wellFormed : {TRUE}]
    \cup { [ctype |-> "text", len |-> JsonLimit + 1, wellFormed |-> TRUE] }

NoError == [status |-> 0, type |-> "none"]

NoRequest ==
    [method |-> "GET", originalUrl |-> <<>>, url |-> <<>>, origin |-> "none",
     ctype |-> "none", len |-> 0, wellFormed |-> TRUE,
     body |-> "undefined", bodyRead |-> FALSE]

\* A fresh http.ServerResponse: status 200, no headers, nothing sent.
FreshResponse ==
    [statusCode |-> 200, body |-> [kind |-> "none"], sent |-> 0,
     csp |-> "none", acao |-> "none", acac |-> FALSE, vary |-> FALSE,
     onFinish |-> FALSE]

(****************************** helpers ************************************)

\* Express routes are case-insensitive by default ('case sensitive routing'
\* is off): segments are compared in lower case.
Lower(s) == IF s = "Health" THEN "health" ELSE s

LowerPath(p) == [i \in 1..Len(p) |-> Lower(p[i])]

IsPrefix(p, q) ==
    /\ Len(p) <= Len(q)
    /\ \A i \in 1..Len(p) : Lower(p[i]) = Lower(q[i])

\* new Date().toISOString(): the reading t rendered as an ISO-8601 string.
ToISOString(t) == <<"1970-01-01T00:00:00.00", t, "Z">>

(************************* the layer stack *********************************)

Layer(name, kind, path, star, arity, csp) ==
    [name |-> name, kind |-> kind, path |-> path, star |-> star,
     arity |-> arity, csp |-> csp]

\* Mutant: the two helmet variants swapped between the branches.
HelmetLayersSwapped(e) ==
    IF e = "production"
    THEN << Layer("helmet", "use", <<>>, FALSE, 3, "default") >>
    ELSE << Layer("helmet", "use", <<>>, FALSE, 3, "strict") >>

\* if (process.env.NODE_ENV === 'production') app.use(helmet({contentSecurityPolicy: ...}))
\* else app.use(helmet({ crossOriginEmbedderPolicy: false }))
HelmetLayers(e) ==
    IF e = "production"
    THEN << Layer("helmet", "use", <<>>, FALSE, 3, "strict") >>
    ELSE << Layer("helmet", "use", <<>>, FALSE, 3, "default") >>

\* Mutant: the diagnostic logger installed only when NODE_ENV is "development".
DiagLayersDevOnly(e) ==
    IF e = "development"
    THEN << Layer("diag", "use", <<>>, FALSE, 3, "none") >>
    ELSE << >>

\* if (process.env.NODE_ENV !== 'production') app.use((req, res, next) => ...)
DiagLayers(e) ==
    IF e # "production"
    THEN << Layer("diag", "use", <<>>, FALSE, 3, "none") >>
    ELSE << >>

RouteGroups == {"auth", "products", "invoices", "shop"}

\* Mutant: the error handler registered before the route groups.
BuildStackErrorHandlerEarly(e) ==
    HelmetLayers(e)
    \o << Layer("morgan", "use", <<>>, FALSE, 3, "none"),
          Layer("cors", "use", <<>>, FALSE, 3, "none") >>
    \o DiagLayers(e)
    \o << Layer("json", "use", <<>>, FALSE, 3, "none"),
          Layer("urlencoded", "use", <<>>, FALSE, 3, "none"),
          Layer("errorHandler", "use", <<>>, FALSE, 4, "none"),
          Layer("health", "route", <<"health">>, FALSE, 2, "none"),
          Layer("apiHealth", "route", <<"api", "health">>, FALSE, 2, "none"),
          Layer("ping", "route", <<"ping">>, FALSE, 2, "none"),
          Layer("auth", "use", <<"api", "auth">>, FALSE, 3, "none"),
          Layer("products", "use", <<"api", "products">>, FALSE, 3, "none"),
          Layer("invoices", "use", <<"api", "invoices">>, FALSE, 3, "none"),
          Layer("shop", "use", <<"api", "shop">>, FALSE, 3, "none"),
          Layer("notFound", "use", <<>>, TRUE, 2, "none") >>

\* Mutant: cors registered after the route groups instead of after morgan.
BuildStackCorsLate(e) ==
    HelmetLayers(e)
    \o << Layer("morgan", "use", <<>>, FALSE, 3, "none") >>
    \o DiagLayers(e)
    \o << Layer("json", "use", <<>>, FALSE, 3, "none"),
          Layer("urlencoded", "use", <<>>, FALSE, 3, "none"),
          Layer("health", "route", <<"health">>, FALSE, 2, "none"),
          Layer("apiHealth", "route", <<"api", "health">>, FALSE, 2, "none"),
          Layer("ping", "route", <<"ping">>, FALSE, 2, "none"),
          Layer("auth", "use", <<"api", "auth">>, FALSE, 3, "none"),
          Layer("products", "use", <<"api", "products">>, FALSE, 3, "none"),
          Layer("invoices", "use", <<"api", "invoices">>, FALSE, 3, "none"),
          Layer("shop", "use", <<"api", "shop">>, FALSE, 3, "none"),
          Layer("cors", "use", <<>>, FALSE, 3, "none"),
          Layer("notFound", "use", <<>>, TRUE, 2, "none"),
          Layer("errorHandler", "use", <<>>, FALSE, 4, "none") >>

\* The application's stack, in registration order (server.js lines 34-99).
BuildStack(e) ==
    HelmetLayers(e)
    \o << Layer("morgan", "use", <<>>, FALSE, 3, "none"),
          Layer("cors", "use", <<>>, FALSE, 3, "none") >>
    \o DiagLayers(e)
    \o << Layer("json", "use", <<>>, FALSE, 3, "none"),
          Layer("urlencoded", "use", <<>>, FALSE, 3, "none"),
          Layer("health", "route", <<"health">>, FALSE, 2, "none"),
          Layer("apiHealth", "route", <<"api", "health">>, FALSE, 2, "none"),
          Layer("ping", "route", <<"ping">>, FALSE, 2, "none"),
          Layer("auth", "use", <<"api", "auth">>, FALSE, 3, "none"),
          Layer("products", "use", <<"api", "products">>, FALSE, 3, "none"),
          Layer("invoices", "use", <<"api", "invoices">>, FALSE, 3, "none"),
          Layer("shop", "use", <<"api", "shop">>, FALSE, 3, "none"),
          Layer("notFound", "use", <<>>, TRUE, 2, "none"),
          Layer("errorHandler", "use", <<>>, FALSE, 4, "none") >>

(*************************** dispatching ***********************************)

\* app.get(path, fn): the route answers GET, and HEAD in the absence of a
\* HEAD handler; OPTIONS and the other methods do not match it.
RouteHandles(m) == m \in {"GET", "HEAD"}

\* Whether the router calls layer l for request r with pending error e:
\* the path must match (app.use: a prefix on a segment boundary, '*': any
\* path; app.get: the whole path and the method), and a handler of four
\* parameters runs only with an error pending, any other only without.
Matches(l, r, e) ==
    /\ IF l.kind = "route"
       THEN LowerPath(l.path) = LowerPath(r.originalUrl) /\ RouteHandles(r.method)
       ELSE l.star \/ IsPrefix(l.path, r.originalUrl)
    /\ (e # NoError) = (l.arity = 4)

\* req.url as the layer's handler sees it: app.use(path, ...) strips the
\* matched prefix ('*' matches the whole path); req.originalUrl never changes.
UrlIn(l, r) ==
    IF l.kind = "use" /\ l.star
    THEN << >>
    ELSE IF l.kind = "use"
         THEN SubSeq(r.originalUrl, Len(l.path) + 1, Len(r.originalUrl))
         ELSE r.originalUrl

\* next(): the first layer after i that matches; Len(stack) + 1 when none
\* does (the request leaves the application's stack).
NextIndex(i, r, e) ==
    LET S == {j \in (i + 1)..Len(stack) : Matches(stack[j], r, e)}
    IN  IF S = {} THEN Len(stack) + 1
        ELSE CHOOSE j \in S : \A k \in S : j <= k

\* The handler called next() (e = NoError) or next(e) / threw e.
Forward(r, e) ==
    LET j == NextIndex(idx, r, e)
    IN  /\ idx' = j
        /\ req' = [r EXCEPT !.url = IF j <= Len(stack) THEN UrlIn(stack[j], r)
                                    ELSE r.originalUrl]
        /\ err' = e
        /\ pc' = "running"

\* The handler ended the response and did not call next().
Finish ==
    /\ pc' = "done"
    /\ UNCHANGED <<idx, req, err>>

\* res.status(s).json(b) / res.send(b) / res.end(): one response written.
Send(r, s, b) ==
    [r EXCEPT !.statusCode = s, !.body = b, !.sent = @ + 1]

\* The layer the request is at is the one named n.
At(n) ==
    /\ pc = "running"
    /\ idx <= Len(stack)
    /\ stack[idx].name = n

(****************************** start-up ***********************************)

\* The state after server.js has run to app.listen: the environment is
\* read once, the stack is built, no request has arrived.
Init ==
    /\ env \in Envs
    /\ stack = BuildStack(env)
    /\ served = 0
    /\ pc = "idle"
    /\ req = NoRequest
    /\ idx = 0
    /\ err = NoError
    /\ res = FreshResponse
    /\ ran = << >>
    /\ out = << >>
    /\ accessLog = 0

\* A request arrives: a fresh req / res pair enters the stack at its top.
Receive ==
    /\ pc = "idle"
    /\ served < MaxRequests
    /\ \E m \in Methods, p \in Paths, o \in Origins, b \in Bodies :
          LET r == [method |-> m, originalUrl |-> p, url |-> p, origin |-> o,
                    ctype |-> b.ctype, len |-> b.len, wellFormed |-> b.wellFormed,
                    body |-> "undefined", bodyRead |-> FALSE]
              j == NextIndex(0, r, NoError)
          IN  /\ req' = [r EXCEPT !.url = IF j <= Len(stack) THEN UrlIn(stack[j], r)
                                          ELSE r.originalUrl]
              /\ idx' = j
    /\ served' = served + 1
    /\ pc' = "running"
    /\ err' = NoError
    /\ res' = FreshResponse
    /\ ran' = << >>
    /\ out' = << >>
    /\ UNCHANGED <<env, stack, accessLog>>

\* The response has been written out: the 'finish' listener morgan
\* registered writes the access-log line, and the req / res pair is dropped.
OnFinished ==
    /\ pc = "done"
    /\ accessLog' = IF res.onFinish THEN accessLog + 1 ELSE accessLog
    /\ pc' = "idle"
    /\ req' = NoRequest
    /\ idx' = 0
    /\ err' = NoError
    /\ res' = FreshResponse
    /\ ran' = << >>
    /\ out' = << >>
    /\ UNCHANGED <<env, stack, served>>

(****************************** handlers ***********************************)

\* helmet(...): sets the security headers, among them the
\* Content-Security-Policy of the installed variant, and calls next().
Helmet ==
    /\ At("helmet")
    /\ res' = [res EXCEPT !.csp = stack[idx].csp]
    /\ ran' = Append(ran, "helmet")
    /\ Forward(req, NoError)
    /\ UNCHANGED <<env, stack, served, out, accessLog>>

\* morgan('combined'): registers the on-finished listener that writes the
\* access-log line, and calls next().
Morgan ==
    /\ At("morgan")
    /\ res' = [res EXCEPT !.onFinish = TRUE]
    /\ ran' = Append(ran, "morgan")
    /\ Forward(req, NoError)
    /\ UNCHANGED <<env, stack, served, out, accessLog>>

\* Mutant: origin '*' in place of the reflecting callback.
CorsHeadersWildcard(r, q) ==
    [r EXCEPT !.acao = "*", !.vary = FALSE, !.acac = TRUE]

\* The headers cors(corsOptions) sets on every request: origin is a callback
\* answering true, so the request's Origin is reflected (no header when the
\* request has none), Vary: Origin is added, and credentials are allowed.
CorsHeaders(r, q) ==
    [r EXCEPT !.acao = q.origin, !.vary = TRUE, !.acac = TRUE]

\* Mutant: the preflight is passed on (preflightContinue) instead of ended.
CorsPreflightContinue ==
    /\ At("cors")
    /\ res' = CorsHeaders(res, req)
    /\ Forward(req, NoError)
    /\ ran' = Append(ran, "cors")
    /\ UNCHANGED <<env, stack, served, out, accessLog>>

\* cors(corsOptions): an OPTIONS request is a preflight, which cors ends
\* itself (preflightContinue is not set) with optionsSuccessStatus and an
\* empty body; any other request gets the headers and goes on.
Cors ==
    /\ At("cors")
    /\ IF req.method = "OPTIONS"
       THEN /\ res' = Send(CorsHeaders(res, req), OptionsSuccessStatus,
                           [kind |-> "empty"])
            /\ Finish
       ELSE /\ res' = CorsHeaders(res, req)
            /\ Forward(req, NoError)
    /\ ran' = Append(ran, "cors")
    /\ UNCHANGED <<env, stack, served, out, accessLog>>

\* console.log(`[REQ] ${req.method} ${req.originalUrl} - Origin: ...`); next()
DiagLogger ==
    /\ At("diag")
    /\ out' = Append(out, <<"[REQ]", req.method, req.originalUrl, req.origin>>)
    /\ ran' = Append(ran, "diag")
    /\ Forward(req, NoError)
    /\ UNCHANGED <<env, stack, served, res, accessLog>>

\* What a body parser of type t and limit lim does with request r:
\* the request with req.body set, and the error it raises (NoError if none).
\*   - a body already read (req._body) is left alone;
\*   - req.body defaults to {};
\*   - a request without a body, or of another Content-Type, is passed on;
\*   - a body longer than the limit fails with 413 entity.too.large;
\*   - a body that does not parse fails with 400 entity.parse.failed.
ParseBody(r, t, lim) ==
    LET d == IF r.body = "undefined" THEN [r EXCEPT !.body = "empty"] ELSE r
    IN  IF r.bodyRead THEN [req |-> r, err |-> NoError]
        ELSE IF r.len = 0 \/ r.ctype # t THEN [req |-> d, err |-> NoError]
        ELSE IF r.len > lim
             THEN [req |-> d, err |-> [status |-> 413, type |-> "entity.too.large"]]
        ELSE IF ~r.wellFormed
             THEN [req |-> d, err |-> [status |-> 400, type |-> "entity.parse.failed"]]
        ELSE [req |-> [d EXCEPT !.body = "parsed", !.bodyRead = TRUE], err |-> NoError]

\* Mutant: the limit check lets a body one byte over the limit through.
JsonParserNoLimit ==
    /\ At("json")
    /\ LET p == ParseBody(req, "json", JsonLimit + 1)
       IN  Forward(p.req, p.err)
    /\ ran' = Append(ran, "json")
    /\ UNCHANGED <<env, stack, served, res, out, accessLog>>

\* express.json({ limit: '10mb' })
JsonParser ==
    /\ At("json")
    /\ LET p == ParseBody(req, "json", JsonLimit)
       IN  Forward(p.req, p.err)
    /\ ran' = Append(ran, "json")
    /\ UNCHANGED <<env, stack, served, res, out, accessLog>>

\* express.urlencoded({ extended: true, limit: '10mb' })
UrlencodedParser ==
    /\ At("urlencoded")
    /\ LET p == ParseBody(req, "urlencoded", UrlencodedLimit)
       IN  Forward(p.req, p.err)
    /\ ran' = Append(ran, "urlencoded")
    /\ UNCHANGED <<env, stack, served, res, out, accessLog>>

HealthBody(msg, t) ==
    [kind |-> "json", status |-> "OK", message |-> msg,
     timestamp |-> ToISOString(t)]

\* Mutant: the handler responds and then also calls next().
HealthHandlerAlsoNext ==
    /\ At("health")
    /\ \E t \in 0..MaxClock :
          res' = Send(res, 200, HealthBody("Billing Invoicer API is running", t))
    /\ ran' = Append(ran, "health")
    /\ Forward(req, NoError)
    /\ UNCHANGED <<env, stack, served, out, accessLog>>

\* app.get('/health', ...)
HealthHandler ==
    /\ At("health")
    /\ \E t \in 0..MaxClock :
          res' = Send(res, 200, HealthBody("Billing Invoicer API is running", t))
    /\ ran' = Append(ran, "health")
    /\ Finish
    /\ UNCHANGED <<env, stack, served, out, accessLog>>

\* Mutant: the mirror endpoint answers without the timestamp.
ApiHealthHandlerNoTimestamp ==
    /\ At("apiHealth")
    /\ res' = Send(res, 200, [kind |-> "json", status |-> "OK",
                              message |-> "Billing Invoicer API (api path) is running"])
    /\ ran' = Append(ran, "apiHealth")
    /\ Finish
    /\ UNCHANGED <<env, stack, served, out, accessLog>>

\* app.get('/api/health', ...)
ApiHealthHandler ==
    /\ At("apiHealth")
    /\ \E t \in 0..MaxClock :
          res' = Send(res, 200,
                      HealthBody("Billing Invoicer API (api path) is running", t))
    /\ ran' = Append(ran, "apiHealth")
    /\ Finish
    /\ UNCHANGED <<env, stack, served, out, accessLog>>

\* app.get('/ping', (req, res) => res.send('pong'))
PingHandler ==
    /\ At("ping")
    /\ res' = Send(res, 200, [kind |-> "text", text |-> "pong"])
    /\ ran' = Append(ran, "ping")
    /\ Finish
    /\ UNCHANGED <<env, stack, served, out, accessLog>>

\* What a mounted route module does with a request: it responds, or finds
\* no route of its own and calls next(), or throws / calls next(err).
RouteOutcomes == {"respond", "pass", "error"}

RouteError == [status |-> 500, type |-> "route.error"]

\* app.use('/api/auth', authRoutes) ... app.use('/api/shop', shopRoutes)
RouteGroup ==
    /\ pc = "running"
    /\ idx <= Len(stack)
    /\ stack[idx].name \in RouteGroups
    /\ ran' = Append(ran, stack[idx].name)
    /\ \E o \in RouteOutcomes :
          CASE o = "respond" ->
                 /\ res' = Send(res, 200, [kind |-> "route", by |-> stack[idx].name,
                                           url |-> req.url])
                 /\ Finish
            [] o = "pass" ->
                 /\ res' = res
                 /\ Forward(req, NoError)
            [] o = "error" ->
                 /\ res' = res
                 /\ Forward(req, RouteError)
    /\ UNCHANGED <<env, stack, served, out, accessLog>>

NotFoundBody(u) ==
    [kind |-> "json", error |-> "Route not found",
     message |-> <<"The endpoint ", u, " does not exist">>]

\* Mutant: the message built from req.url, which the mount has stripped.
NotFoundHandlerUrl ==
    /\ At("notFound")
    /\ res' = Send(res, 404, NotFoundBody(req.url))
    /\ ran' = Append(ran, "notFound")
    /\ Finish
    /\ UNCHANGED <<env, stack, served, out, accessLog>>

\* app.use('*', (req, res) => res.status(404).json({error, message}))
NotFoundHandler ==
    /\ At("notFound")
    /\ res' = Send(res, 404, NotFoundBody(req.originalUrl))
    /\ ran' = Append(ran, "notFound")
    /\ Finish
    /\ UNCHANGED <<env, stack, served, out, accessLog>>

\* app.use(errorHandler): ./middleware/errorHandler maps the error to a
\* status and a JSON body and ends the response.
ErrorHandler ==
    /\ At("errorHandler")
    /\ res' = Send(res, err.status, [kind |-> "error", type |-> err.type])
    /\ ran' = Append(ran, "errorHandler")
    /\ Finish
    /\ UNCHANGED <<env, stack, served, out, accessLog>>

\* One step of the middleware chain for the request in flight.
Handle ==
    \/ Helmet
    \/ Morgan
    \/ Cors
    \/ DiagLogger
    \/ JsonParser
    \/ UrlencodedParser
    \/ HealthHandler
    \/ ApiHealthHandler
    \/ PingHandler
    \/ RouteGroup
    \/ NotFoundHandler
    \/ ErrorHandler

Next == Receive \/ Handle \/ OnFinished

Spec == Init /\ [][Next]_vars

\* Node runs the chain of a received request to its end: a handler that is
\* due is eventually called.
FairSpec == Spec /\ WF_vars(Handle)

(******************************* claims ************************************)

\* The stage of the chain a handler belongs to, in the order of the claim:
\* security headers, access log, CORS, diagnostic log, body parsing, route
\* dispatch, 404, error handler.
Stage(n) ==
    CASE n = "helmet" -> 1
      [] n = "morgan" -> 2
      [] n = "cors" -> 3
      [] n = "diag" -> 4
      [] n \in {"json", "urlencoded"} -> 5
      [] n \in {"health", "apiHealth", "ping"} \cup RouteGroups -> 6
      [] n = "notFound" -> 7
      [] n = "errorHandler" -> 8

InFlight == pc \in {"running", "done"}

Last(q) == q[Len(q)]

Ran(n) == \E i \in 1..Len(ran) : ran[i] = n

Times(n) == Cardinality({i \in 1..Len(ran) : ran[i] = n})

\* The body parsers accept the request's body: it is not a JSON or
\* URL-encoded body over the limit, and not a malformed JSON body.
BodyAccepted(r) ==
    /\ ~(r.ctype = "json" /\ (r.len > JsonLimit \/ ~r.wellFormed))
    /\ ~(r.ctype = "urlencoded" /\ r.len > UrlencodedLimit)

\* A JSON or URL-encoded body larger than 10 MB.
Oversized(r) ==
    \/ r.ctype = "json" /\ r.len > JsonLimit
    \/ r.ctype = "urlencoded" /\ r.len > UrlencodedLimit

MountPrefixes ==
    { <<"api", "auth">>, <<"api", "products">>, <<"api", "invoices">>,
      <<"api", "shop">> }

ExactPrefix(p, q) == Len(p) <= Len(q) /\ SubSeq(q, 1, Len(p)) = p

\* The path is none of /health, /api/health, /ping and under no mounted
\* prefix, compared as written.
Unrouted(p) ==
    /\ p \notin { <<"health">>, <<"api", "health">>, <<"ping">> }
    /\ \A m \in MountPrefixes : ~ExactPrefix(m, p)

\* The same, compared the way the router compares (case-insensitively).
UnroutedAnyCase(p) == Unrouted(LowerPath(p))

HasNotFoundBody ==
    /\ res.statusCode = 404
    /\ DOMAIN res.body = {"kind", "error", "message"}
    /\ res.body.error = "Route not found"
    /\ res.body.message[2] = req.originalUrl

HasHealthBody ==
    /\ res.statusCode = 200
    /\ "status" \in DOMAIN res.body
    /\ res.body.status = "OK"
    /\ "timestamp" \in DOMAIN res.body
    /\ \E t \in 0..MaxClock : res.body.timestamp = ToISOString(t)

\* C1: the handlers that run for a request run in registration order of
\* their stages (headers, access log, CORS, diagnostic log, body parsing,
\* route dispatch, 404, error handler): a handler never runs after a handler
\* of a later stage, helmet, morgan and cors have run before any later
\* handler, the diagnostic logger (outside production) before any handler
\* after it, and both body parsers before any route or the 404 handler.
C1_RegistrationOrder ==
    InFlight =>
       /\ \A i, j \in 1..Len(ran) :
             i < j => /\ Stage(ran[i]) <= Stage(ran[j])
                      /\ Stage(ran[i]) = Stage(ran[j]) =>
                            ran[i] = "json" /\ ran[j] = "urlencoded"
       /\ \A i \in 1..Len(ran) :
             /\ i = 1 <=> ran[i] = "helmet"
             /\ i = 2 <=> ran[i] = "morgan"
             /\ i = 3 <=> ran[i] = "cors"
             /\ (Stage(ran[i]) > 4 /\ env # "production") => ran[4] = "diag"
             /\ Stage(ran[i]) \in {6, 7} =>
                   \E j, k \in 1..(i - 1) :
                      j < k /\ ran[j] = "json" /\ ran[k] = "urlencoded"

\* C1 witness: a request went through every stage up to the 404 handler,
\* after a route group found no route for it.
C1_Witness ==
    /\ pc = "done"
    /\ ran = <<"helmet", "morgan", "cors", "diag", "json", "urlencoded",
               "auth", "notFound">>

\* C2: a response is never sent twice, none is sent while a handler is
\* still due, a finished request has exactly one, and every request in
\* flight does finish.
C2_ExactlyOneResponse ==
    /\ [](/\ res.sent <= 1
          /\ pc = "running" => res.sent = 0 /\ idx \in 1..Len(stack)
          /\ pc = "done" => res.sent = 1)
    /\ [](pc = "running" => <>(pc = "done"))

\* C2 witness: the one response of a request that failed came from the
\* error handler.
C2_Witness ==
    /\ pc = "done"
    /\ res.sent = 1
    /\ Last(ran) = "errorHandler"
    /\ err = RouteError

\* C3 as claimed: every request to /health or /api/health, whatever its
\* method and body, ends with 200 and a body with status "OK" and a timestamp.
C3_HealthAnyRequest ==
    (pc = "done" /\ req.originalUrl \in { <<"health">>, <<"api", "health">> })
       => HasHealthBody

\* C3 amended: every GET request to /health or /api/health whose body the
\* body parsers accept ends with 200 and a body with status "OK" and a
\* timestamp.
C3_HealthGet ==
    (/\ pc = "done"
     /\ req.originalUrl \in { <<"health">>, <<"api", "health">> }
     /\ req.method = "GET"
     /\ BodyAccepted(req))
       => HasHealthBody

\* C3 witness: a GET of /api/health was answered by its handler.
C3_Witness ==
    /\ pc = "done"
    /\ req.originalUrl = <<"api", "health">>
    /\ req.method = "GET"
    /\ Last(ran) = "apiHealth"

C5_CorsOnEveryResponse ==
    (InFlight /\ res.sent > 0) =>
       /\ Ran("cors")
       /\ Last(ran) = "cors" => req.method = "OPTIONS"
       /\ res.acao = req.origin
       /\ res.vary
       /\ res.acac

\* C5 witness: an error response to a request with an Origin carries it.
C5_Witness ==
    /\ pc = "done"
    /\ Last(ran) = "errorHandler"
    /\ req.origin = "https://shop.example"
    /\ res.acao = "https://shop.example"

\* C6 as claimed: a request with a JSON or URL-encoded body over 10 MB
\* reaches no health/ping handler, route group or 404 handler, and its
\* response is the error handler's.
C6_OversizedAnyRequest ==
    (InFlight /\ Oversized(req)) =>
       /\ \A i \in 1..Len(ran) : Stage(ran[i]) \notin {6, 7}
       /\ pc = "done" => Last(ran) = "errorHandler" /\ res.body.kind = "error"

\* C6 amended: a request other than OPTIONS with a JSON or URL-encoded body
\* over 10 MB reaches no health/ping handler, route group or 404 handler,
\* and its response is the error handler's, for the parser's 413 error.
C6_Oversized ==
    (InFlight /\ Oversized(req) /\ req.method # "OPTIONS") =>
       /\ \A i \in 1..Len(ran) : Stage(ran[i]) \notin {6, 7}
       /\ pc = "done" =>
             /\ Last(ran) = "errorHandler"
             /\ res.body.kind = "error"
             /\ err.type = "entity.too.large"
             /\ res.statusCode = 413

\* C6 witness: an oversized JSON POST to a mounted route was answered by the
\* error handler.
C6_Witness ==
    /\ pc = "done"
    /\ req.method = "POST"
    /\ req.ctype = "json"
    /\ req.len > JsonLimit
    /\ req.originalUrl = <<"api", "invoices", "7">>
    /\ Last(ran) = "errorHandler"

\* C7: the error handler is the last layer of the stack; whenever an error
\* is pending, the handler due is the error handler, and once it has run
\* nothing else runs: every later non-error handler is skipped.
C7_ErrorsReachErrorHandler ==
    /\ Last(stack).name = "errorHandler"
    /\ \A i \in 1..(Len(stack) - 1) : stack[i].arity # 4
    /\ (InFlight /\ err # NoError) =>
          /\ pc = "running" => idx <= Len(stack) /\ stack[idx].name = "errorHandler"
          /\ pc = "done" => Last(ran) = "errorHandler"
          /\ \A i \in 1..Len(ran) : ran[i] \notin {"notFound"}
          /\ Times("errorHandler") <= 1
    /\ (InFlight /\ err = NoError) => ~Ran("errorHandler")

\* C7 witness: a route group's error went to the error handler, past the
\* later route groups and the 404 handler.
C7_Witness ==
    /\ pc = "done"
    /\ err = RouteError
    /\ ran = <<"helmet", "morgan", "cors", "json", "urlencoded", "auth",
               "errorHandler">>

\* C8: exactly one helmet layer is installed, the strict one if and only if
\* NODE_ENV is "production"; the diagnostic logger is installed if and only
\* if it is not, and in production it never runs and prints nothing.
C8_EnvironmentSelection ==
    /\ Cardinality({i \in 1..Len(stack) : stack[i].name = "helmet"}) = 1
    /\ \A i \in 1..Len(stack) :
          /\ stack[i].name = "helmet" =>
                (stack[i].csp = "strict" <=> env = "production")
                /\ stack[i].csp \in {"strict", "default"}
    /\ (\E i \in 1..Len(stack) : stack[i].name = "diag") <=> env # "production"
    /\ env = "production" => ~Ran("diag") /\ out = << >>
    /\ (InFlight /\ res.sent > 0) =>
          res.csp = IF env = "production" THEN "strict" ELSE "default"

\* C8 witness: a production server answered a request with the strict policy.
C8_Witness ==
    /\ env = "production"
    /\ pc = "done"
    /\ res.csp = "strict"
    /\ Last(ran) = "ping"

\* C9 as claimed: outside production the diagnostic logger has run once for
\* every request that got its response, whatever its method or path.
C9_DiagAnyRequest ==
    (env # "production" /\ InFlight /\ res.sent > 0) => Times("diag") = 1

\* C9 amended: outside production the diagnostic logger has run once, and
\* printed the method, path and origin, for every request other than
\* OPTIONS by the time its response is sent.
C9_DiagNonPreflight ==
    (env # "production" /\ InFlight /\ req.method # "OPTIONS") =>
       /\ Times("diag") <= 1
       /\ res.sent > 0 =>
             /\ Times("diag") = 1
             /\ out = << <<"[REQ]", req.method, req.originalUrl, req.origin>> >>

\* C9 witness: with NODE_ENV unset, a POST was logged before its response.
C9_Witness ==
    /\ env = "unset"
    /\ pc = "done"
    /\ req.method = "POST"
    /\ out = << <<"[REQ]", "POST", req.originalUrl, req.origin>> >>

\* C10: an OPTIONS request, whatever its path, runs helmet, morgan and cors
\* and nothing else, and ends in the CORS stage with status 200 and an
\* empty body.
C10_PreflightEndsInCors ==
    (InFlight /\ req.method = "OPTIONS") =>
       /\ \A i \in 1..Len(ran) : ran[i] \in {"helmet", "morgan", "cors"}
       /\ pc = "done" =>
             /\ ran = <<"helmet", "morgan", "cors">>
             /\ res.statusCode = OptionsSuccessStatus
             /\ res.body = [kind |-> "empty"]
             /\ res.sent = 1

\* C10 witness: an OPTIONS request to a mounted route with an oversized
\* body was ended by cors.
C10_Witness ==
    /\ pc = "done"
    /\ req.method = "OPTIONS"
    /\ req.originalUrl = <<"api", "auth", "login">>
    /\ req.len > JsonLimit
    /\ Last(ran) = "cors"
    /\ res.statusCode = 200

====
